---- MODULE Spec2Model ----
(***************************************************************************)
(* Model of the mallard image gateway: the create / delete / read          *)
(* orchestration of routers/images/endpoints.py over an object store and   *)
(* the SQL metadata store, and the query translation of                    *)
(* backends/metadata/sql/sql_image_metadata_store.py.                      *)
(*                                                                         *)
(* Every backend call is one atomic step that either commits or fails;     *)
(* the handler of a request is a separate step from the tasks it launched  *)
(* with asyncio.create_task, so every interleaving of the branches and of  *)
(* the handler's resumption after asyncio.gather is explored.              *)
(***************************************************************************)
EXTENDS Integers, Sequences, FiniteSets, TLC

VARIABLES
    objects,    \* the object store: the set of ObjectRefs that hold a blob
    metadata,   \* the SQL table of images: a set of rows
    reqs,       \* the requests in flight: slot -> request record
    issued,     \* the uuid4 names handed out so far
    known,      \* the ObjectRefs a create response has delivered to a client
    deleted,    \* the ObjectRefs for which a delete_image response was a success
    attempted,  \* the ObjectRefs on which delete_image has been called
    qreq,       \* the query request under evaluation (or NoQuery)
    qres,       \* what the query yielded (or NoResult)
    executed,   \* the SELECTs the SQL session has executed, with their results
    today,      \* the date date.today() returns: an index into Days
    buckets,    \* the object store's buckets: a set of bucket names
    callers,    \* the use_bucket calls in flight: caller -> position
    bucketCalls \* the create_bucket calls the object store has received

bucketVars == <<today, buckets, callers, bucketCalls>>

vars == <<objects, metadata, reqs, issued, known, deleted, attempted,
          qreq, qres, executed, bucketVars>>

orchVars == <<objects, metadata, reqs, issued, known, deleted, attempted>>

queryVars == <<qreq, qres, executed>>

----------------------------------------------------------------------------
(* Bounds of the model.                                                    *)

\* Images that may be created in one behaviour (the uuid4 names available).
MaxImages == 1

\* The requests the gateway is serving. Requests are taken one at a time:
\* the next one starts when the one before has been answered and the tasks
\* it launched have ended. Inside a request the tasks and the handler
\* interleave freely.
Slots == {1}

----------------------------------------------------------------------------
(* Object references.                                                      *)

\* The bucket of the day, as use_bucket names it.
Bucket == "2026-11-05-images"

ObjectRef(bucket, name) == [bucket |-> bucket, name |-> name]

\* The hex names uuid.uuid4() may return: pairwise distinct, none a prefix
\* of another.
UuidName(i) == <<"u1", "u2", "u3", "u4">>[i]
UuidNames == {UuidName(i) : i \in 1..MaxImages}

_thumbnail_id(object_id) ==
    ObjectRef(object_id.bucket, object_id.name \o ".thumbnail")

\* A name no create ever issued, for requests on an image that never existed.
UnknownRef == ObjectRef(Bucket, "nope")

NoRef == ObjectRef("", "")

----------------------------------------------------------------------------
(* Errors.                                                                 *)

Error(kind, src) == [kind |-> kind, src |-> src]
NoError == Error("none", "none")

\* HTTPException(status_code=404)
Http404 == Error("HTTP404", "handler")

OperationErrors == {"MetadataOperationError", "ObjectOperationError"}

----------------------------------------------------------------------------
(* Metadata values.                                                        *)

Meta(pt, name, session, lat) ==
    [platform_type |-> pt, name |-> name, notes |-> <<"a">>,
     camera |-> <<"a">>, session_number |-> session, sequence_number |-> 1,
     capture_date |-> 1, location_description |-> <<"a">>,
     altitude_meters |-> 1, gsd_cm_px |-> 1,
     location |-> [latitude_deg |-> lat, longitude_deg |-> 1]]

DefaultMeta == Meta("AERIAL", <<"a">>, 1, 1)

\* The metadata a create request of the orchestration model carries.
CreateMetas == {DefaultMeta}

\* __pydantic_to_orm_image: the row of an image.
PydanticToOrmImage(object_id, m) ==
    [bucket |-> object_id.bucket, key |-> object_id.name,
     location_lat |-> m.location.latitude_deg,
     location_lon |-> m.location.longitude_deg,
     platform_type |-> m.platform_type, name |-> m.name, notes |-> m.notes,
     camera |-> m.camera, session_number |-> m.session_number,
     sequence_number |-> m.sequence_number, capture_date |-> m.capture_date,
     location_description |-> m.location_description,
     altitude_meters |-> m.altitude_meters, gsd_cm_px |-> m.gsd_cm_px]

\* The rows __get_by_id's select matches.
RowsById(table, object_id) ==
    {r \in table : r.bucket = object_id.bucket /\ r.key = object_id.name}

----------------------------------------------------------------------------
(* Requests.                                                               *)

Idle ==
    [kind |-> "idle", pc |-> "idle", ref |-> NoRef, md |-> DefaultMeta,
     obj |-> "na", meta |-> "na", thumb |-> "na",
     gexc |-> NoError, exc |-> NoError,
     first |-> FALSE, afterOk |-> FALSE, overlap |-> FALSE]

Settled(t) == t \notin {"pending", "generated"}

AllSettled(r) == Settled(r.obj) /\ Settled(r.meta) /\ Settled(r.thumb)

\* asyncio.gather without return_exceptions: the first exception a child
\* raises becomes the exception of the gather future; later ones are dropped.
GatherExc(r, err) == IF r.gexc = NoError THEN err ELSE r.gexc

----------------------------------------------------------------------------
(* The object store (backends.objects.ObjectStore): a map from ObjectRef   *)
(* to blob, of which only the domain matters here.                         *)

\* create_object(ref, data)
create_object(store, ref) == store \cup {ref}

\* get_object / delete_object raise KeyError for a ref that holds nothing.
object_exists(store, ref) == ref \in store

\* delete_object(ref), for a ref that holds a blob
delete_object(store, ref) == store \ {ref}

----------------------------------------------------------------------------
(* The initial state: empty stores, no request in flight.                  *)

NoQuery == [active |-> FALSE]
NoResult == [done |-> FALSE]

----------------------------------------------------------------------------
(* use_bucket: the dependency that names, and creates when missing, the    *)
(* bucket of the day.                                                      *)

MaxCallers == 3

Callers == 1..MaxCallers

\* The dates date.today() passes through, as date.isoformat() writes them.
Days == <<"2026-11-05", "2026-11-06">>

\* f"{date.today().isoformat()}-images"
BucketName(day) == day \o "-images"

IdleCaller == [pc |-> "idle"]

\* object_store.bucket_exists(bucket_name)
bucket_exists(store, bucket_name) == bucket_name \in store

\* object_store.create_bucket(bucket_name) on a store without that bucket.
create_bucket(store, bucket_name) == store \cup {bucket_name}

\* What the store has recorded of one create_bucket call.
BucketCall(c, bucket_name, existed) ==
    [caller |-> c, bucket |-> bucket_name, existed |-> existed]

\* The state the image handlers run in: use_bucket has returned today's
\* bucket and no use_bucket call is in flight.
BucketReady ==
    /\ today = 1
    /\ buckets = {Bucket}
    /\ callers = [c \in Callers |-> IdleCaller]
    /\ bucketCalls = {}

\* A request enters use_bucket: it computes bucket_name and awaits
\* bucket_exists.
UseBucket(c) ==
    /\ callers[c].pc = "idle"
    /\ callers' = [callers EXCEPT ![c] =
                      [pc |-> "bucket_exists",
                       bucket_name |-> BucketName(Days[today])]]
    /\ UNCHANGED <<orchVars, queryVars, today, buckets, bucketCalls>>

\* bucket_exists answers; the caller returns the name when the bucket is
\* there and goes on to create_bucket when it is not.
BucketExists(c) ==
    /\ callers[c].pc = "bucket_exists"
    /\ callers' = [callers EXCEPT ![c].pc =
                      IF bucket_exists(buckets, callers[c].bucket_name)
                      THEN "returned"
                      ELSE "create_bucket"]
    /\ UNCHANGED <<orchVars, queryVars, today, buckets, bucketCalls>>

\* create_bucket reaches the store. On a bucket that exists by now the
\* store either raises, and the error leaves use_bucket, or accepts the
\* call and changes nothing.
CreateBucket(c) ==
    /\ callers[c].pc = "create_bucket"
    /\ LET bucket_name == callers[c].bucket_name
           existed == bucket_exists(buckets, bucket_name)
       IN  /\ bucketCalls' = bucketCalls \cup
                                 {BucketCall(c, bucket_name, existed)}
           /\ IF existed
              THEN /\ buckets' = buckets
                   /\ \/ callers' = [callers EXCEPT ![c].pc = "raised"]
                      \/ callers' = [callers EXCEPT ![c].pc = "returned"]
              ELSE /\ buckets' = create_bucket(buckets, bucket_name)
                   /\ callers' = [callers EXCEPT ![c].pc = "returned"]
    /\ UNCHANGED <<orchVars, queryVars, today>>

\* Midnight passes.
Tomorrow ==
    /\ today < Len(Days)
    /\ today' = today + 1
    /\ UNCHANGED <<orchVars, queryVars, buckets, callers, bucketCalls>>

\* An object store without buckets and no request yet.
UInit ==
    /\ objects = {}
    /\ metadata = {}
    /\ reqs = [s \in Slots |-> Idle]
    /\ issued = {}
    /\ known = {}
    /\ deleted = {}
    /\ attempted = {}
    /\ qreq = NoQuery
    /\ qres = NoResult
    /\ executed = <<>>
    /\ today = 1
    /\ buckets = {}
    /\ callers = [c \in Callers |-> IdleCaller]
    /\ bucketCalls = {}

UNext ==
    \/ \E c \in Callers : UseBucket(c) \/ BucketExists(c) \/ CreateBucket(c)
    \/ Tomorrow

USpec == UInit /\ [][UNext]_vars

Init ==
    /\ objects = {}
    /\ metadata = {}
    /\ reqs = [s \in Slots |-> Idle]
    /\ issued = {}
    /\ known = {}
    /\ deleted = {}
    /\ attempted = {}
    /\ qreq = NoQuery
    /\ qres = NoResult
    /\ executed = <<>>
    /\ BucketReady

----------------------------------------------------------------------------
(* create_uav_image                                                        *)

\* Lines 216-238: name the image and launch the three tasks.
StartCreate(s) ==
    /\ reqs[s].kind = "idle"
    /\ Cardinality(issued) < MaxImages
    /\ \E m \in CreateMetas :
        LET unique_name == UuidName(Cardinality(issued) + 1)
            object_id == ObjectRef(Bucket, unique_name)
        IN  /\ reqs' = [reqs EXCEPT ![s] =
                          [Idle EXCEPT !.kind = "create", !.pc = "gather",
                                       !.ref = object_id, !.md = m,
                                       !.obj = "pending", !.meta = "pending",
                                       !.thumb = "pending"]]
            /\ issued' = issued \cup {unique_name}
    /\ UNCHANGED <<objects, metadata, known, deleted, attempted, qreq, qres,
                 executed, bucketVars>>

\* object_task: object_store.create_object(object_id, data=image_data)
CreateObjectTask(s) ==
    /\ reqs[s].kind = "create"
    /\ reqs[s].obj = "pending"
    /\ \/ /\ objects' = create_object(objects, reqs[s].ref)
          /\ reqs' = [reqs EXCEPT ![s].obj = "ok"]
       \/ /\ objects' = objects
          /\ reqs' = [reqs EXCEPT
                ![s].obj = "ObjectOperationError",
                ![s].gexc = GatherExc(reqs[s],
                    Error("ObjectOperationError", "object_task"))]
    /\ UNCHANGED <<metadata, issued, known, deleted, attempted, qreq, qres,
                 executed, bucketVars>>

\* SqlImageMetadataStore.add: one transaction that inserts the row.
SqlAdd(table, object_id, m) == table \cup {PydanticToOrmImage(object_id, m)}

\* metadata_task: metadata_store.add(object_id=object_id, metadata=metadata)
CreateMetadataTask(s) ==
    /\ reqs[s].kind = "create"
    /\ reqs[s].meta = "pending"
    /\ \/ /\ metadata' = SqlAdd(metadata, reqs[s].ref, reqs[s].md)
          /\ reqs' = [reqs EXCEPT ![s].meta = "ok"]
       \/ /\ metadata' = metadata
          /\ reqs' = [reqs EXCEPT
                ![s].meta = "MetadataOperationError",
                ![s].gexc = GatherExc(reqs[s],
                    Error("MetadataOperationError", "metadata_task"))]
    /\ UNCHANGED <<objects, issued, known, deleted, attempted, qreq, qres,
                 executed, bucketVars>>

\* thumbnail_task, first await: _create_thumbnail(image_bytes) in the
\* process pool; PIL may reject the bytes.
CreateThumbnailGenerate(s) ==
    /\ reqs[s].kind = "create"
    /\ reqs[s].thumb = "pending"
    /\ \/ reqs' = [reqs EXCEPT ![s].thumb = "generated"]
       \/ reqs' = [reqs EXCEPT
                ![s].thumb = "ThumbnailError",
                ![s].gexc = GatherExc(reqs[s],
                    Error("ThumbnailError", "thumbnail_task"))]
    /\ UNCHANGED <<objects, metadata, issued, known, deleted, attempted, qreq, qres,
                 executed, bucketVars>>

\* thumbnail_task, second await: create_object(thumbnail_object_id, ...)
CreateThumbnailStore(s) ==
    /\ reqs[s].kind = "create"
    /\ reqs[s].thumb = "generated"
    /\ \/ /\ objects' = create_object(objects, _thumbnail_id(reqs[s].ref))
          /\ reqs' = [reqs EXCEPT ![s].thumb = "ok"]
       \/ /\ objects' = objects
          /\ reqs' = [reqs EXCEPT
                ![s].thumb = "ObjectOperationError",
                ![s].gexc = GatherExc(reqs[s],
                    Error("ObjectOperationError", "thumbnail_task"))]
    /\ UNCHANGED <<metadata, issued, known, deleted, attempted, qreq, qres,
                 executed, bucketVars>>

\* A mutation of CreateResume that returns as soon as the main object and
\* the metadata are written, without waiting for the thumbnail.
CreateResumeEarly(s) ==
    /\ reqs[s].kind = "create"
    /\ reqs[s].pc = "gather"
    /\ reqs[s].obj = "ok" /\ reqs[s].meta = "ok"
    /\ reqs[s].gexc = NoError
    /\ reqs' = [reqs EXCEPT ![s].pc = "returned"]
    /\ UNCHANGED <<objects, metadata, issued, known, deleted, attempted, qreq, qres,
                 executed, bucketVars>>

\* A variant of CreateResume that cancels the tasks still pending when the
\* gather has failed.
CreateResumeCancelling(s) ==
    /\ reqs[s].kind = "create"
    /\ reqs[s].pc = "gather"
    /\ \/ /\ reqs[s].gexc = NoError
          /\ reqs[s].obj = "ok" /\ reqs[s].meta = "ok" /\ reqs[s].thumb = "ok"
          /\ reqs' = [reqs EXCEPT ![s].pc = "returned"]
       \/ /\ reqs[s].gexc # NoError
          /\ reqs' = [reqs EXCEPT
                ![s].pc =
                    IF reqs[s].gexc.kind = "MetadataOperationError"
                    THEN "rollback_object"
                    ELSE IF reqs[s].gexc.kind = "ObjectOperationError"
                         THEN "rollback_metadata"
                         ELSE "raised",
                ![s].exc =
                    IF reqs[s].gexc.kind \in OperationErrors
                    THEN reqs[s].exc
                    ELSE reqs[s].gexc,
                ![s].obj = IF @ = "pending" THEN "cancelled" ELSE @,
                ![s].meta = IF @ = "pending" THEN "cancelled" ELSE @,
                ![s].thumb = IF @ \in {"pending", "generated"}
                             THEN "cancelled" ELSE @]
    /\ UNCHANGED <<objects, metadata, issued, known, deleted, attempted, qreq,
                   qres, executed, bucketVars>>

\* A variant of CreateResume that starts the rollback of the main object
\* for every exception of the gather that is not an ObjectOperationError.
CreateResumeRollbackAny(s) ==
    /\ reqs[s].kind = "create"
    /\ reqs[s].pc = "gather"
    /\ \/ /\ reqs[s].gexc = NoError
          /\ reqs[s].obj = "ok" /\ reqs[s].meta = "ok" /\ reqs[s].thumb = "ok"
          /\ reqs' = [reqs EXCEPT ![s].pc = "returned"]
       \/ /\ reqs[s].gexc.kind = "ObjectOperationError"
          /\ reqs' = [reqs EXCEPT ![s].pc = "rollback_metadata"]
       \/ /\ reqs[s].gexc.kind \notin {"none", "ObjectOperationError"}
          /\ reqs' = [reqs EXCEPT ![s].pc = "rollback_object"]
    /\ UNCHANGED <<objects, metadata, issued, known, deleted, attempted, qreq,
                   qres, executed, bucketVars>>

\* Lines 240-254: the handler resumes from asyncio.gather, with the three
\* results or with the first exception a task raised.
CreateResume(s) ==
    /\ reqs[s].kind = "create"
    /\ reqs[s].pc = "gather"
    /\ \/ /\ reqs[s].gexc = NoError
          /\ reqs[s].obj = "ok" /\ reqs[s].meta = "ok" /\ reqs[s].thumb = "ok"
          /\ reqs' = [reqs EXCEPT ![s].pc = "returned"]
       \/ /\ reqs[s].gexc.kind = "MetadataOperationError"
          /\ reqs' = [reqs EXCEPT ![s].pc = "rollback_object"]
       \/ /\ reqs[s].gexc.kind = "ObjectOperationError"
          /\ reqs' = [reqs EXCEPT ![s].pc = "rollback_metadata"]
       \/ /\ reqs[s].gexc # NoError
          /\ reqs[s].gexc.kind \notin OperationErrors
          /\ reqs' = [reqs EXCEPT ![s].pc = "raised", ![s].exc = reqs[s].gexc]
    /\ UNCHANGED <<objects, metadata, issued, known, deleted, attempted, qreq, qres,
                 executed, bucketVars>>

\* Line 246: await object_store.delete_object(object_id)
RollbackDeleteObject(s) ==
    /\ reqs[s].kind = "create"
    /\ reqs[s].pc = "rollback_object"
    /\ \/ /\ object_exists(objects, reqs[s].ref)
          /\ objects' = delete_object(objects, reqs[s].ref)
          /\ reqs' = [reqs EXCEPT ![s].pc = "rollback_thumbnail"]
       \/ /\ ~object_exists(objects, reqs[s].ref)
          /\ objects' = objects
          /\ reqs' = [reqs EXCEPT ![s].pc = "raised",
                                  ![s].exc = Error("KeyError", "rollback")]
       \/ /\ objects' = objects
          /\ reqs' = [reqs EXCEPT ![s].pc = "raised",
                ![s].exc = Error("ObjectOperationError", "rollback")]
    /\ UNCHANGED <<metadata, issued, known, deleted, attempted, qreq, qres,
                 executed, bucketVars>>

\* Lines 247-248: await object_store.delete_object(thumbnail_object_id),
\* then raise error.
RollbackDeleteThumbnail(s) ==
    /\ reqs[s].kind = "create"
    /\ reqs[s].pc = "rollback_thumbnail"
    /\ \/ /\ object_exists(objects, _thumbnail_id(reqs[s].ref))
          /\ objects' = delete_object(objects, _thumbnail_id(reqs[s].ref))
          /\ reqs' = [reqs EXCEPT ![s].pc = "raised",
                                  ![s].exc = reqs[s].gexc]
       \/ /\ ~object_exists(objects, _thumbnail_id(reqs[s].ref))
          /\ objects' = objects
          /\ reqs' = [reqs EXCEPT ![s].pc = "raised",
                                  ![s].exc = Error("KeyError", "rollback")]
       \/ /\ objects' = objects
          /\ reqs' = [reqs EXCEPT ![s].pc = "raised",
                ![s].exc = Error("ObjectOperationError", "rollback")]
    /\ UNCHANGED <<metadata, issued, known, deleted, attempted, qreq, qres,
                 executed, bucketVars>>

\* A mutation of SqlDelete whose transaction deletes nothing.
SqlDeleteNothing(table, object_id) == table

\* SqlImageMetadataStore.delete, for a row __get_by_id finds.
SqlDelete(table, object_id) == table \ RowsById(table, object_id)

\* __get_by_id: scalars().one() raises NoResultFound, rethrown as KeyError.
SqlFound(table, object_id) == RowsById(table, object_id) # {}

\* Lines 251-252: await metadata_store.delete(object_id), then raise error.
RollbackDeleteMetadata(s) ==
    /\ reqs[s].kind = "create"
    /\ reqs[s].pc = "rollback_metadata"
    /\ \/ /\ SqlFound(metadata, reqs[s].ref)
          /\ metadata' = SqlDelete(metadata, reqs[s].ref)
          /\ reqs' = [reqs EXCEPT ![s].pc = "raised",
                                  ![s].exc = reqs[s].gexc]
       \/ /\ ~SqlFound(metadata, reqs[s].ref)
          /\ metadata' = metadata
          /\ reqs' = [reqs EXCEPT ![s].pc = "raised",
                                  ![s].exc = Error("KeyError", "rollback")]
       \/ /\ metadata' = metadata
          /\ reqs' = [reqs EXCEPT ![s].pc = "raised",
                ![s].exc = Error("MetadataOperationError", "rollback")]
    /\ UNCHANGED <<objects, issued, known, deleted, attempted, qreq, qres,
                 executed, bucketVars>>

\* The response reaches the client and, once every task the request launched
\* has ended, the request is over. A 201 tells the client the new ObjectRef.
CreateRespond(s) ==
    /\ reqs[s].kind = "create"
    /\ reqs[s].pc \in {"returned", "raised"}
    /\ AllSettled(reqs[s])
    /\ known' = IF reqs[s].pc = "returned" THEN known \cup {reqs[s].ref}
                ELSE known
    /\ reqs' = [reqs EXCEPT ![s] = Idle]
    /\ UNCHANGED <<objects, metadata, issued, deleted, attempted, qreq, qres,
                 executed, bucketVars>>

CreateNext(s) ==
    \/ StartCreate(s)
    \/ CreateObjectTask(s)
    \/ CreateMetadataTask(s)
    \/ CreateThumbnailGenerate(s)
    \/ CreateThumbnailStore(s)
    \/ CreateResume(s)
    \/ RollbackDeleteObject(s)
    \/ RollbackDeleteThumbnail(s)
    \/ RollbackDeleteMetadata(s)
    \/ CreateRespond(s)

----------------------------------------------------------------------------
(* delete_image                                                            *)

\* The ObjectRefs a client can put in a request: those a create response
\* told it, the thumbnail names derived from them, and a made-up one.
Targets == known \cup {_thumbnail_id(k) : k \in known} \cup {UnknownRef}

\* The other delete_image calls in flight on the same ObjectRef.
SameRefDeletes(s, ref) ==
    {t \in Slots \ {s} : reqs[t].kind = "delete" /\ reqs[t].ref = ref}

\* Lines 272-280: launch the two delete tasks.
StartDelete(s) ==
    /\ reqs[s].kind = "idle"
    /\ \E object_id \in Targets :
        /\ reqs' = [t \in Slots |->
              IF t = s
              THEN [Idle EXCEPT
                      !.kind = "delete", !.pc = "gather", !.ref = object_id,
                      !.obj = "pending", !.meta = "pending",
                      !.first = (object_id \in known
                                 /\ object_id \notin attempted),
                      !.afterOk = (object_id \in deleted),
                      !.overlap = (SameRefDeletes(s, object_id) # {})]
              ELSE IF t \in SameRefDeletes(s, object_id)
                   THEN [reqs[t] EXCEPT !.overlap = TRUE]
                   ELSE reqs[t]]
        /\ attempted' = attempted \cup {object_id}
    /\ UNCHANGED <<objects, metadata, issued, known, deleted, qreq, qres,
                 executed, bucketVars>>

\* object_task: object_store.delete_object(object_id)
DeleteObjectTask(s) ==
    /\ reqs[s].kind = "delete"
    /\ reqs[s].obj = "pending"
    /\ \/ /\ object_exists(objects, reqs[s].ref)
          /\ objects' = delete_object(objects, reqs[s].ref)
          /\ reqs' = [reqs EXCEPT ![s].obj = "ok"]
       \/ /\ ~object_exists(objects, reqs[s].ref)
          /\ objects' = objects
          /\ reqs' = [reqs EXCEPT
                ![s].obj = "KeyError",
                ![s].gexc = GatherExc(reqs[s],
                    Error("KeyError", "object_task"))]
       \/ /\ objects' = objects
          /\ reqs' = [reqs EXCEPT
                ![s].obj = "ObjectOperationError",
                ![s].gexc = GatherExc(reqs[s],
                    Error("ObjectOperationError", "object_task"))]
    /\ UNCHANGED <<metadata, issued, known, deleted, attempted, qreq, qres,
                 executed, bucketVars>>

\* metadata_task: metadata_store.delete(object_id)
DeleteMetadataTask(s) ==
    /\ reqs[s].kind = "delete"
    /\ reqs[s].meta = "pending"
    /\ \/ /\ SqlFound(metadata, reqs[s].ref)
          /\ metadata' = SqlDelete(metadata, reqs[s].ref)
          /\ reqs' = [reqs EXCEPT ![s].meta = "ok"]
       \/ /\ ~SqlFound(metadata, reqs[s].ref)
          /\ metadata' = metadata
          /\ reqs' = [reqs EXCEPT
                ![s].meta = "KeyError",
                ![s].gexc = GatherExc(reqs[s],
                    Error("KeyError", "metadata_task"))]
       \/ /\ metadata' = metadata
          /\ reqs' = [reqs EXCEPT
                ![s].meta = "MetadataOperationError",
                ![s].gexc = GatherExc(reqs[s],
                    Error("MetadataOperationError", "metadata_task"))]
    /\ UNCHANGED <<objects, issued, known, deleted, attempted, qreq, qres,
                 executed, bucketVars>>

\* A mutation of DeleteResume that returns as soon as one of the two
\* deletes has succeeded.
DeleteResumeEither(s) ==
    /\ reqs[s].kind = "delete"
    /\ reqs[s].pc = "gather"
    /\ \/ /\ reqs[s].obj = "ok" \/ reqs[s].meta = "ok"
          /\ reqs' = [reqs EXCEPT ![s].pc = "returned"]
       \/ /\ reqs[s].obj # "ok" /\ reqs[s].meta # "ok"
          /\ reqs[s].gexc.kind = "KeyError"
          /\ reqs' = [reqs EXCEPT ![s].pc = "raised", ![s].exc = Http404]
       \/ /\ reqs[s].obj # "ok" /\ reqs[s].meta # "ok"
          /\ reqs[s].gexc.kind \notin {"none", "KeyError"}
          /\ reqs' = [reqs EXCEPT ![s].pc = "raised", ![s].exc = reqs[s].gexc]
    /\ UNCHANGED <<objects, metadata, issued, known, deleted, attempted, qreq, qres,
                 executed, bucketVars>>

\* A variant of DeleteResume that, when the gather failed with an error
\* other than KeyError, writes back the object its object task deleted.
DeleteResumeRestore(s) ==
    /\ reqs[s].kind = "delete"
    /\ reqs[s].pc = "gather"
    /\ \/ /\ reqs[s].gexc = NoError
          /\ reqs[s].obj = "ok" /\ reqs[s].meta = "ok"
          /\ reqs' = [reqs EXCEPT ![s].pc = "returned"]
          /\ objects' = objects
       \/ /\ reqs[s].gexc.kind = "KeyError"
          /\ reqs' = [reqs EXCEPT ![s].pc = "raised", ![s].exc = Http404]
          /\ objects' = objects
       \/ /\ reqs[s].gexc.kind \notin {"none", "KeyError"}
          /\ reqs' = [reqs EXCEPT ![s].pc = "raised", ![s].exc = reqs[s].gexc]
          /\ objects' = IF reqs[s].obj = "ok"
                        THEN create_object(objects, reqs[s].ref)
                        ELSE objects
    /\ UNCHANGED <<metadata, issued, known, deleted, attempted, qreq, qres,
                 executed, bucketVars>>

\* Lines 282-288: the handler resumes from asyncio.gather; a KeyError
\* becomes a 404, any other exception propagates.
DeleteResume(s) ==
    /\ reqs[s].kind = "delete"
    /\ reqs[s].pc = "gather"
    /\ \/ /\ reqs[s].gexc = NoError
          /\ reqs[s].obj = "ok" /\ reqs[s].meta = "ok"
          /\ reqs' = [reqs EXCEPT ![s].pc = "returned"]
       \/ /\ reqs[s].gexc.kind = "KeyError"
          /\ reqs' = [reqs EXCEPT ![s].pc = "raised", ![s].exc = Http404]
       \/ /\ reqs[s].gexc.kind \notin {"none", "KeyError"}
          /\ reqs' = [reqs EXCEPT ![s].pc = "raised", ![s].exc = reqs[s].gexc]
    /\ UNCHANGED <<objects, metadata, issued, known, deleted, attempted, qreq, qres,
                 executed, bucketVars>>

\* The response reaches the client; the request is over once both tasks
\* have ended.
DeleteRespond(s) ==
    /\ reqs[s].kind = "delete"
    /\ reqs[s].pc \in {"returned", "raised"}
    /\ AllSettled(reqs[s])
    /\ deleted' = IF reqs[s].pc = "returned" THEN deleted \cup {reqs[s].ref}
                  ELSE deleted
    /\ reqs' = [reqs EXCEPT ![s] = Idle]
    /\ UNCHANGED <<objects, metadata, issued, known, attempted, qreq, qres,
                 executed, bucketVars>>

DeleteNext(s) ==
    \/ StartDelete(s)
    \/ DeleteObjectTask(s)
    \/ DeleteMetadataTask(s)
    \/ DeleteResume(s)
    \/ DeleteRespond(s)

----------------------------------------------------------------------------
(* get_image                                                               *)

\* Lines 309-315: launch the two fetch tasks.
StartGet(s) ==
    /\ reqs[s].kind = "idle"
    /\ \E object_id \in Targets :
        reqs' = [reqs EXCEPT ![s] =
                    [Idle EXCEPT !.kind = "get", !.pc = "gather",
                                 !.ref = object_id,
                                 !.obj = "pending", !.meta = "pending"]]
    /\ UNCHANGED <<objects, metadata, issued, known, deleted, attempted, qreq, qres,
                 executed, bucketVars>>

\* object_task: object_store.get_object(object_id)
GetObjectTask(s) ==
    /\ reqs[s].kind = "get"
    /\ reqs[s].obj = "pending"
    /\ \/ /\ object_exists(objects, reqs[s].ref)
          /\ reqs' = [reqs EXCEPT ![s].obj = "ok"]
       \/ /\ ~object_exists(objects, reqs[s].ref)
          /\ reqs' = [reqs EXCEPT
                ![s].obj = "KeyError",
                ![s].gexc = GatherExc(reqs[s],
                    Error("KeyError", "object_task"))]
       \/ reqs' = [reqs EXCEPT
                ![s].obj = "ObjectOperationError",
                ![s].gexc = GatherExc(reqs[s],
                    Error("ObjectOperationError", "object_task"))]
    /\ UNCHANGED <<objects, metadata, issued, known, deleted, attempted, qreq, qres,
                 executed, bucketVars>>

\* metadata_task: metadata_store.get(object_id)
GetMetadataTask(s) ==
    /\ reqs[s].kind = "get"
    /\ reqs[s].meta = "pending"
    /\ \/ /\ SqlFound(metadata, reqs[s].ref)
          /\ reqs' = [reqs EXCEPT ![s].meta = "ok"]
       \/ /\ ~SqlFound(metadata, reqs[s].ref)
          /\ reqs' = [reqs EXCEPT
                ![s].meta = "KeyError",
                ![s].gexc = GatherExc(reqs[s],
                    Error("KeyError", "metadata_task"))]
       \/ reqs' = [reqs EXCEPT
                ![s].meta = "MetadataOperationError",
                ![s].gexc = GatherExc(reqs[s],
                    Error("MetadataOperationError", "metadata_task"))]
    /\ UNCHANGED <<objects, metadata, issued, known, deleted, attempted, qreq, qres,
                 executed, bucketVars>>

\* task.cancel(): a task that has not ended is cancelled, one that has is
\* left as it is.
Cancel(t) == IF t = "pending" THEN "cancelled" ELSE t

\* A mutation of GetResume that streams the blob as soon as the object
\* fetch has succeeded.
GetResumeStreamOnly(s) ==
    /\ reqs[s].kind = "get"
    /\ reqs[s].pc = "gather"
    /\ \/ /\ reqs[s].obj = "ok"
          /\ reqs' = [reqs EXCEPT ![s].pc = "returned"]
       \/ /\ reqs[s].obj # "ok"
          /\ reqs[s].gexc.kind = "KeyError"
          /\ reqs' = [reqs EXCEPT ![s].pc = "raised", ![s].exc = Http404,
                                  ![s].obj = Cancel(reqs[s].obj),
                                  ![s].meta = Cancel(reqs[s].meta)]
       \/ /\ reqs[s].obj # "ok"
          /\ reqs[s].gexc.kind \notin {"none", "KeyError"}
          /\ reqs' = [reqs EXCEPT ![s].pc = "raised", ![s].exc = reqs[s].gexc]
    /\ UNCHANGED <<objects, metadata, issued, known, deleted, attempted, qreq, qres,
                 executed, bucketVars>>

\* Lines 317-334: the handler resumes from asyncio.gather; on a KeyError it
\* cancels both tasks and raises a 404; any other exception propagates;
\* otherwise it returns the stream with the MIME type of the metadata.
GetResume(s) ==
    /\ reqs[s].kind = "get"
    /\ reqs[s].pc = "gather"
    /\ \/ /\ reqs[s].gexc = NoError
          /\ reqs[s].obj = "ok" /\ reqs[s].meta = "ok"
          /\ reqs' = [reqs EXCEPT ![s].pc = "returned"]
       \/ /\ reqs[s].gexc.kind = "KeyError"
          /\ reqs' = [reqs EXCEPT ![s].pc = "raised", ![s].exc = Http404,
                                  ![s].obj = Cancel(reqs[s].obj),
                                  ![s].meta = Cancel(reqs[s].meta)]
       \/ /\ reqs[s].gexc.kind \notin {"none", "KeyError"}
          /\ reqs' = [reqs EXCEPT ![s].pc = "raised", ![s].exc = reqs[s].gexc]
    /\ UNCHANGED <<objects, metadata, issued, known, deleted, attempted, qreq, qres,
                 executed, bucketVars>>

\* The response reaches the client; the request is over once both tasks
\* have ended.
GetRespond(s) ==
    /\ reqs[s].kind = "get"
    /\ reqs[s].pc \in {"returned", "raised"}
    /\ AllSettled(reqs[s])
    /\ reqs' = [reqs EXCEPT ![s] = Idle]
    /\ UNCHANGED <<objects, metadata, issued, known, deleted, attempted, qreq, qres,
                 executed, bucketVars>>

GetNext(s) ==
    \/ StartGet(s)
    \/ GetObjectTask(s)
    \/ GetMetadataTask(s)
    \/ GetResume(s)
    \/ GetRespond(s)

----------------------------------------------------------------------------
(* The gateway: any request, any task, any handler may take the next step. *)

Next == \E s \in Slots : CreateNext(s) \/ DeleteNext(s) \/ GetNext(s)

Spec == Init /\ [][Next]_vars

----------------------------------------------------------------------------
(* The query model: ImageQuery, Ordering, and their translation to SQL.    *)

\* Bounds of the query inputs.
\* Longest text value (of a row, of a filter).
MaxTextLen == 1
\* Largest number (session number, latitude, ... ; range bounds).
MaxNum == 2
\* Rows in the table a query runs on.
MaxRows == 2
\* Predicates (field filters, bounding box) one ImageQuery may hold.
MaxActive == 1
\* Orderings one request may list.
MaxOrderings == 1
\* Largest results_per_page and page_num of a request.
MaxPageSize == 2
MaxPageNum == 2

\* The characters of text values; "_" and "%" are what SQL LIKE reads as
\* wildcards.
Alphabet == {"a", "_"}

RECURSIVE TextsOfLen(_)
TextsOfLen(n) ==
    IF n = 0 THEN {<<>>}
    ELSE {<<c>> \o t : c \in Alphabet, t \in TextsOfLen(n - 1)}

Texts == UNION {TextsOfLen(n) : n \in 0..MaxTextLen}

Nums == 1..MaxNum

PlatformTypes == {"GROUND", "AERIAL"}

\* The shapes of a filter value, on which __update_query dispatches.
NoneValue == [tag |-> "None"]
EnumValue(v) == [tag |-> "Enum", value |-> v]
StrValue(v) == [tag |-> "Str", value |-> v]
Range(min_value, max_value) ==
    [tag |-> "Range", min_value |-> min_value, max_value |-> max_value]

GeoPoint(lat, lon) == [latitude_deg |-> lat, longitude_deg |-> lon]
BoundingBox(south_west, north_east) ==
    [tag |-> "Box", south_west |-> south_west, north_east |-> north_east]

\* ImageQuery(): every field absent.
EmptyQuery ==
    [platform_type |-> NoneValue, name |-> NoneValue, notes |-> NoneValue,
     camera |-> NoneValue, session_numbers |-> NoneValue,
     sequence_numbers |-> NoneValue, capture_dates |-> NoneValue,
     location_description |-> NoneValue, altitude_meters |-> NoneValue,
     gsd_cm_px |-> NoneValue, bounding_box |-> NoneValue]

\* The (value, column) pairs of __update_image_query, in its order.
QueryUpdates(value) ==
    << <<value.platform_type, "platform_type">>,
       <<value.name, "name">>,
       <<value.notes, "notes">>,
       <<value.camera, "camera">>,
       <<value.session_numbers, "session_number">>,
       <<value.sequence_numbers, "sequence_number">>,
       <<value.capture_dates, "capture_date">>,
       <<value.location_description, "location_description">>,
       <<value.altitude_meters, "altitude_meters">>,
       <<value.gsd_cm_px, "gsd_cm_px">> >>

\* Ordering.Field and _ORDER_TO_COLUMN.
OrderFields == {"NAME", "SESSION_NUM", "SEQUENCE_NUM", "CAPTURE_DATE", "CAMERA"}

\* A variant of _ORDER_TO_COLUMN without the entry for CAMERA.
OrderToColumnNoCamera ==
    [f \in OrderFields \ {"CAMERA"} |->
        CASE f = "NAME" -> "name"
          [] f = "SESSION_NUM" -> "session_number"
          [] f = "SEQUENCE_NUM" -> "sequence_number"
          [] f = "CAPTURE_DATE" -> "capture_date"]

_ORDER_TO_COLUMN ==
    [f \in OrderFields |->
        CASE f = "NAME" -> "name"
          [] f = "SESSION_NUM" -> "session_number"
          [] f = "SEQUENCE_NUM" -> "sequence_number"
          [] f = "CAPTURE_DATE" -> "capture_date"
          [] f = "CAMERA" -> "camera"]

Ordering(field, ascending) == [field |-> field, ascending |-> ascending]

\* select(Image): no WHERE clause, no ORDER BY, no OFFSET, no LIMIT.
SelectImage ==
    [where |-> <<>>, order_by |-> <<>>, offset |-> 0, limit |-> -1]

Clause(op, column, value) == [op |-> op, column |-> column, value |-> value]

\* A variant of Where that drops the clauses the query already has.
WhereReplace(query, clauses) == [query EXCEPT !.where = clauses]

Where(query, clauses) == [query EXCEPT !.where = @ \o clauses]

\* A variant of __update_query whose Range bounds are exclusive.
UpdateQueryExclusive(value, query, column) ==
    CASE value.tag = "None" -> query
      [] value.tag = "Enum" ->
            Where(query, <<Clause("eq", column, value.value)>>)
      [] value.tag = "Str" ->
            Where(query,
                  <<Clause("like", column, <<"%">> \o value.value \o <<"%">>)>>)
      [] value.tag = "Range" ->
            Where(query, <<Clause("ge", column, value.min_value + 1),
                           Clause("le", column, value.max_value - 1)>>)

\* __update_query: one filter value on one column.
\*   None  -> no clause
\*   Enum  -> column == value
\*   str   -> column.like(f"%{value}%")
\*   Range -> column >= min_value, column <= max_value
__update_query(value, query, column) ==
    CASE value.tag = "None" -> query
      [] value.tag = "Enum" ->
            Where(query, <<Clause("eq", column, value.value)>>)
      [] value.tag = "Str" ->
            Where(query,
                  <<Clause("like", column, <<"%">> \o value.value \o <<"%">>)>>)
      [] value.tag = "Range" ->
            Where(query, <<Clause("ge", column, value.min_value),
                           Clause("le", column, value.max_value)>>)

\* A variant of __update_location_query that compares the latitude column
\* with the longitudes of the box and the longitude column with its
\* latitudes.
UpdateLocationQuerySwapped(value, query, lat_column, lon_column) ==
    IF value = NoneValue
    THEN query
    ELSE Where(query,
            <<Clause("le", lon_column, value.north_east.latitude_deg),
              Clause("ge", lon_column, value.south_west.latitude_deg),
              Clause("le", lat_column, value.north_east.longitude_deg),
              Clause("ge", lat_column, value.south_west.longitude_deg)>>)

\* __update_location_query
__update_location_query(value, query, lat_column, lon_column) ==
    IF value = NoneValue
    THEN query
    ELSE Where(query,
            <<Clause("le", lat_column, value.north_east.latitude_deg),
              Clause("ge", lat_column, value.south_west.latitude_deg),
              Clause("le", lon_column, value.north_east.longitude_deg),
              Clause("ge", lon_column, value.south_west.longitude_deg)>>)

\* _apply_query_updates: the loop of __update_image_query over the pairs.
RECURSIVE _apply_query_updates(_, _)
_apply_query_updates(updates, query) ==
    IF updates = <<>> THEN query
    ELSE _apply_query_updates(
            Tail(updates),
            __update_query(Head(updates)[1], query, Head(updates)[2]))

\* __update_image_query
__update_image_query(value, query) ==
    __update_location_query(
        value.bounding_box,
        _apply_query_updates(QueryUpdates(value), query),
        "location_lat", "location_lon")

\* A variant of __update_query_order that puts the new ordering before
\* the ones the query already has.
UpdateQueryOrderFirst(order, query) ==
    [query EXCEPT !.order_by =
        <<[column |-> _ORDER_TO_COLUMN[order.field],
           desc |-> ~order.ascending]>> \o @]

\* __update_query_order, for a field of _ORDER_TO_COLUMN.
__update_query_order(order, query) ==
    [query EXCEPT !.order_by =
        @ \o <<[column |-> _ORDER_TO_COLUMN[order.field],
                desc |-> ~order.ascending]>>]

RECURSIVE ApplyOrderings(_, _)
ApplyOrderings(orderings, query) ==
    IF orderings = <<>> THEN query
    ELSE ApplyOrderings(Tail(orderings),
                        __update_query_order(Head(orderings), query))

\* The SELECT that SqlImageMetadataStore.query builds.
BuildSelection(q, orderings, skip_first, max_num_results) ==
    [ApplyOrderings(orderings, __update_image_query(q, SelectImage))
        EXCEPT !.offset = skip_first, !.limit = max_num_results]

----------------------------------------------------------------------------
(* The database's evaluation of a SELECT.                                  *)

\* SQL LIKE: "%" matches any run of characters, "_" any one character.
RECURSIVE Like(_, _)
Like(text, pattern) ==
    IF pattern = <<>> THEN text = <<>>
    ELSE IF Head(pattern) = "%"
         THEN \/ Like(text, Tail(pattern))
              \/ text # <<>> /\ Like(Tail(text), pattern)
         ELSE /\ text # <<>>
              /\ Head(pattern) = "_" \/ Head(pattern) = Head(text)
              /\ Like(Tail(text), Tail(pattern))

ClauseHolds(row, c) ==
    CASE c.op = "eq" -> row[c.column] = c.value
      [] c.op = "like" -> Like(row[c.column], c.value)
      [] c.op = "ge" -> row[c.column] >= c.value
      [] c.op = "le" -> row[c.column] <= c.value

\* The rows the WHERE clauses keep.
Selected(table, selection) ==
    {row \in table :
        \A i \in 1..Len(selection.where) :
            ClauseHolds(row, selection.where[i])}

TextColumns == {"name", "notes", "camera", "location_description"}

CharRank(c) == IF c = "_" THEN 0 ELSE 1

\* Comparison of two texts, -1, 0 or 1, character by character.
RECURSIVE TextCmp(_, _)
TextCmp(a, b) ==
    IF a = <<>> /\ b = <<>> THEN 0
    ELSE IF a = <<>> THEN -1
    ELSE IF b = <<>> THEN 1
    ELSE IF CharRank(Head(a)) < CharRank(Head(b)) THEN -1
    ELSE IF CharRank(Head(a)) > CharRank(Head(b)) THEN 1
    ELSE TextCmp(Tail(a), Tail(b))

ValueCmp(column, a, b) ==
    IF column \in TextColumns THEN TextCmp(a, b)
    ELSE IF a < b THEN -1 ELSE IF a > b THEN 1 ELSE 0

\* ORDER BY c1 [DESC], c2 [DESC], ...: -1 when row a sorts before row b,
\* 1 when after, 0 when the ORDER BY does not tell them apart.
RECURSIVE OrderCmp(_, _, _)
OrderCmp(order_by, a, b) ==
    IF order_by = <<>> THEN 0
    ELSE LET o == Head(order_by)
             c == ValueCmp(o.column, a[o.column], b[o.column])
             d == IF o.desc THEN 0 - c ELSE c
         IN  IF d # 0 THEN d ELSE OrderCmp(Tail(order_by), a, b)

\* The orders in which the database may return a set of rows: every
\* arrangement that respects the ORDER BY (any arrangement when there is
\* none, and any order among rows the ORDER BY leaves tied).
Arrangements(rows, order_by) ==
    {seq \in [1..Cardinality(rows) -> rows] :
        /\ \A i, j \in 1..Cardinality(rows) : i # j => seq[i] # seq[j]
        /\ \A i, j \in 1..Cardinality(rows) :
              i < j => OrderCmp(order_by, seq[i], seq[j]) <= 0}

Min2(a, b) == IF a < b THEN a ELSE b

\* A variant of Window that ignores the OFFSET.
WindowNoOffset(seq, offset, limit) ==
    SubSeq(seq, 1, Min2(Len(seq), limit))

\* OFFSET and LIMIT.
Window(seq, offset, limit) ==
    SubSeq(seq, offset + 1, Min2(Len(seq), offset + limit))

\* session.execute(selection): the row sequences the database may return.
Execute(table, selection) ==
    {Window(seq, selection.offset, selection.limit) :
        seq \in Arrangements(Selected(table, selection), selection.order_by)}

\* SqlImageMetadataStore.query: the ObjectRef sequences it may yield.
query(table, q, orderings, skip_first, max_num_results) ==
    {[i \in 1..Len(rows) |-> ObjectRef(rows[i].bucket, rows[i].key)] :
        rows \in Execute(table,
                   BuildSelection(q, orderings, skip_first, max_num_results))}

----------------------------------------------------------------------------
(* query_images                                                            *)

\* The records a table under query holds: they differ in platform type,
\* name (not empty), session number and latitude.
QueryMetas ==
    {Meta(pt, name, session, lat) :
        pt \in PlatformTypes, name \in Texts \ {<<>>},
        session \in Nums, lat \in Nums}

\* The tables of at most n rows: row i is keyed by the i-th name.
RECURSIVE TablesOf(_)
TablesOf(n) ==
    IF n = 0 THEN {{}}
    ELSE LET smaller == TablesOf(n - 1)
         IN  smaller \cup
             {table \cup {PydanticToOrmImage(ObjectRef(Bucket, UuidName(n)), m)} :
                 table \in {t \in smaller : Cardinality(t) = n - 1},
                 m \in QueryMetas}

TextFields == {"name", "notes", "camera", "location_description"}

RangeFields ==
    {"session_numbers", "sequence_numbers", "capture_dates",
     "altitude_meters", "gsd_cm_px"}

GeoPoints == {GeoPoint(lat, lon) : lat \in Nums, lon \in Nums}

\* The (field, value) pairs a request may set in its ImageQuery.
FieldFilters ==
    {<<"platform_type", EnumValue(pt)>> : pt \in PlatformTypes}
    \cup {<<f, StrValue(t)>> : f \in TextFields, t \in Texts}
    \cup {<<f, Range(lo, hi)>> : f \in RangeFields, lo \in Nums, hi \in Nums}
    \cup {<<"bounding_box", BoundingBox(sw, ne)>> :
             sw \in GeoPoints, ne \in GeoPoints}

\* The ImageQuery values with at most n fields set.
RECURSIVE QueriesWith(_)
QueriesWith(n) ==
    IF n = 0 THEN {EmptyQuery}
    ELSE LET fewer == QueriesWith(n - 1)
         IN  fewer \cup
             {[q EXCEPT ![p[1]] = p[2]] : q \in fewer, p \in FieldFilters}

Orderings == {Ordering(f, asc) : f \in OrderFields, asc \in BOOLEAN}

OrderingLists ==
    UNION {[1..n -> Orderings] : n \in 0..MaxOrderings}

\* The parameters of a POST /query.
QueryRequest(q, orderings, results_per_page, page_num) ==
    [active |-> TRUE, query |-> q, orderings |-> orderings,
     results_per_page |-> results_per_page, page_num |-> page_num]

QueryRequests ==
    {QueryRequest(q, orderings, results_per_page, page_num) :
        q \in QueriesWith(MaxActive), orderings \in OrderingLists,
        results_per_page \in 1..MaxPageSize, page_num \in 1..MaxPageNum}

QueryResponse(image_ids, page_num, is_last_page) ==
    [done |-> TRUE, image_ids |-> image_ids, page_num |-> page_num,
     is_last_page |-> is_last_page]

\* A table of stored records and a query request that has arrived.
QInit ==
    /\ objects = {}
    /\ metadata \in TablesOf(MaxRows)
    /\ reqs = [s \in Slots |-> Idle]
    /\ issued = {}
    /\ known = {}
    /\ deleted = {}
    /\ attempted = {}
    /\ qreq \in QueryRequests
    /\ qres = NoResult
    /\ executed = <<>>
    /\ BucketReady

\* _ORDER_TO_COLUMN[order.field]: a KeyError for a field the dict lacks.
OrderingsKnown(orderings) ==
    \A i \in 1..Len(orderings) :
        orderings[i].field \in DOMAIN _ORDER_TO_COLUMN

\* What the caller of query_images gets when it raises.
QueryRaised(error) == [done |-> TRUE, error |-> error]

\* One entry of the session's log: session.execute(selection) and the
\* ObjectRefs made from its rows.
Executed(selection, image_ids) ==
    [selection |-> selection, image_ids |-> image_ids]

\* query_images: compute the window, run the store's query, collect the
\* results and tell whether the page is the last. The store's query raises
\* while it builds the SELECT, before session.execute, when an ordering
\* names a field that _ORDER_TO_COLUMN lacks.
QueryImages ==
    /\ qreq # NoQuery
    /\ qres = NoResult
    /\ LET skip_first == (qreq.page_num - 1) * qreq.results_per_page
       IN  IF OrderingsKnown(qreq.orderings)
           THEN \E image_ids \in query(metadata, qreq.query, qreq.orderings,
                                       skip_first, qreq.results_per_page) :
                    /\ qres' = QueryResponse(
                                   image_ids, qreq.page_num,
                                   Len(image_ids) < qreq.results_per_page)
                    /\ executed' =
                           Append(executed,
                                  Executed(BuildSelection(
                                               qreq.query, qreq.orderings,
                                               skip_first,
                                               qreq.results_per_page),
                                           image_ids))
           ELSE /\ qres' = QueryRaised(Error("KeyError", "query"))
                /\ executed' = executed
    /\ UNCHANGED <<orchVars, qreq, bucketVars>>

QNext == QueryImages

QSpec == QInit /\ [][QNext]_vars

----------------------------------------------------------------------------
(* Queries with a single Range filter.                                     *)

\* The tables of at most n rows drawn from metas: row i is keyed by the
\* i-th name.
RECURSIVE TablesFrom(_, _)
TablesFrom(metas, n) ==
    IF n = 0 THEN {{}}
    ELSE LET smaller == TablesFrom(metas, n - 1)
         IN  smaller \cup
             {table \cup {PydanticToOrmImage(ObjectRef(Bucket, UuidName(n)), m)} :
                 table \in {t \in smaller : Cardinality(t) = n - 1},
                 m \in metas}

\* Records that differ in two of the fields a Range may filter.
RangeMetas ==
    {[Meta("AERIAL", <<"a">>, session, 1) EXCEPT !.altitude_meters = altitude] :
        session \in Nums, altitude \in Nums}

\* One Range filter, no ordering, and a first page that holds every row.
RangeRequests ==
    {QueryRequest([EmptyQuery EXCEPT ![f] = Range(lo, hi)], <<>>, MaxRows, 1) :
        f \in RangeFields, lo \in Nums, hi \in Nums}

RInit ==
    /\ objects = {}
    /\ metadata \in TablesFrom(RangeMetas, MaxRows)
    /\ reqs = [s \in Slots |-> Idle]
    /\ issued = {}
    /\ known = {}
    /\ deleted = {}
    /\ attempted = {}
    /\ qreq \in RangeRequests
    /\ qres = NoResult
    /\ executed = <<>>
    /\ BucketReady

RSpec == RInit /\ [][QNext]_vars

----------------------------------------------------------------------------
(* Queries with a bounding box only.                                       *)

\* Records that differ in their location.
BoxMetas ==
    {[DefaultMeta EXCEPT !.location = GeoPoint(lat, lon)] :
        lat \in Nums, lon \in Nums}

\* A bounding box or none, no other filter, no ordering, and a first page
\* that holds every row.
BoxRequests ==
    {QueryRequest([EmptyQuery EXCEPT !.bounding_box = box], <<>>, MaxRows, 1) :
        box \in {NoneValue} \cup
                {BoundingBox(sw, ne) : sw \in GeoPoints, ne \in GeoPoints}}

BInit ==
    /\ objects = {}
    /\ metadata \in TablesFrom(BoxMetas, MaxRows)
    /\ reqs = [s \in Slots |-> Idle]
    /\ issued = {}
    /\ known = {}
    /\ deleted = {}
    /\ attempted = {}
    /\ qreq \in BoxRequests
    /\ qres = NoResult
    /\ executed = <<>>
    /\ BucketReady

BSpec == BInit /\ [][QNext]_vars

----------------------------------------------------------------------------
(* A client that reads the pages of a query one after the other.           *)

\* Records that differ in name (one character) and session number.
PageMetas ==
    {Meta("AERIAL", name, session, 1) :
        name \in TextsOfLen(1), session \in Nums}

\* No filter, a Range on the session number, or a one-character name.
PageQueries ==
    {EmptyQuery}
    \cup {[EmptyQuery EXCEPT !.session_numbers = Range(lo, hi)] :
             lo \in Nums, hi \in Nums}
    \cup {[EmptyQuery EXCEPT !.name = StrValue(t)] : t \in TextsOfLen(1)}

\* Orderings by name and by session number.
PageOrderings ==
    {Ordering(f, asc) : f \in {"NAME", "SESSION_NUM"}, asc \in BOOLEAN}

PageOrderingLists ==
    UNION {[1..n -> PageOrderings] : n \in 0..MaxOrderings}

\* The request for the first page.
PageRequests ==
    {QueryRequest(q, orderings, results_per_page, 1) :
        q \in PageQueries, orderings \in PageOrderingLists,
        results_per_page \in 1..MaxPageSize}

PInit ==
    /\ objects = {}
    /\ metadata \in TablesFrom(PageMetas, MaxRows)
    /\ reqs = [s \in Slots |-> Idle]
    /\ issued = {}
    /\ known = {}
    /\ deleted = {}
    /\ attempted = {}
    /\ qreq \in PageRequests
    /\ qres = NoResult
    /\ executed = <<>>
    /\ BucketReady

\* The client asks for the page after the one it has received: the same
\* query, orderings and results_per_page, page_num one higher.
NextPage ==
    /\ qres # NoResult
    /\ "image_ids" \in DOMAIN qres
    /\ qreq.page_num < MaxPageNum
    /\ qreq' = [qreq EXCEPT !.page_num = @ + 1]
    /\ qres' = NoResult
    /\ UNCHANGED <<orchVars, executed, bucketVars>>

PNext == QueryImages \/ NextPage

PSpec == PInit /\ [][PNext]_vars

----------------------------------------------------------------------------
(* Queries with several orderings.                                         *)

\* Orderings one request of this part may list.
MaxSortKeys == 2

\* The fields a request may name in an ordering: those of
\* _ORDER_TO_COLUMN and one that it lacks.
RequestFields == OrderFields \cup {"OTHER"}

SortOrderings == {Ordering(f, asc) : f \in RequestFields, asc \in BOOLEAN}

SortOrderingLists ==
    UNION {[1..n -> SortOrderings] : n \in 0..MaxSortKeys}

\* No filter, and a first page that holds every row.
SortRequests ==
    {QueryRequest(EmptyQuery, orderings, MaxRows, 1) :
        orderings \in SortOrderingLists}

OInit ==
    /\ objects = {}
    /\ metadata \in TablesFrom(PageMetas, MaxRows)
    /\ reqs = [s \in Slots |-> Idle]
    /\ issued = {}
    /\ known = {}
    /\ deleted = {}
    /\ attempted = {}
    /\ qreq \in SortRequests
    /\ qres = NoResult
    /\ executed = <<>>
    /\ BucketReady

OSpec == OInit /\ [][QNext]_vars

----------------------------------------------------------------------------
(* Queries with several filters.                                           *)

\* Filters one ImageQuery of this part may hold.
MaxConjuncts == 2

\* Records that differ in name (one character), session number and
\* latitude.
ConjMetas ==
    {Meta("AERIAL", name, session, lat) :
        name \in TextsOfLen(1), session \in Nums, lat \in Nums}

\* A one-character name, a Range on the session number, or a bounding box
\* over a band of latitudes.
ConjFilters ==
    {<<"name", StrValue(t)>> : t \in TextsOfLen(1)}
    \cup {<<"session_numbers", Range(lo, hi)>> : lo \in Nums, hi \in Nums}
    \cup {<<"bounding_box",
            BoundingBox(GeoPoint(south, 1), GeoPoint(north, MaxNum))>> :
             south \in Nums, north \in Nums}

\* The ImageQuery values with at most n of these filters.
RECURSIVE ConjQueries(_)
ConjQueries(n) ==
    IF n = 0 THEN {EmptyQuery}
    ELSE LET fewer == ConjQueries(n - 1)
         IN  fewer \cup
             {[q EXCEPT ![p[1]] = p[2]] : q \in fewer, p \in ConjFilters}

\* No ordering, and a first page that holds every row.
ConjRequests ==
    {QueryRequest(q, <<>>, MaxRows, 1) : q \in ConjQueries(MaxConjuncts)}

\* Tables of at most two records: whether a record is selected does not
\* depend on the other rows.
CInit ==
    /\ objects = {}
    /\ metadata \in TablesFrom(ConjMetas, 2)
    /\ reqs = [s \in Slots |-> Idle]
    /\ issued = {}
    /\ known = {}
    /\ deleted = {}
    /\ attempted = {}
    /\ qreq \in ConjRequests
    /\ qres = NoResult
    /\ executed = <<>>
    /\ BucketReady

CSpec == CInit /\ [][QNext]_vars

----------------------------------------------------------------------------
(* A query served while create, delete and get requests are in progress.   *)

\* Empty stores, no request in flight, and a query for every image that
\* will be evaluated at some moment of the behaviour.
XInit ==
    /\ objects = {}
    /\ metadata = {}
    /\ reqs = [s \in Slots |-> Idle]
    /\ issued = {}
    /\ known = {}
    /\ deleted = {}
    /\ attempted = {}
    /\ qreq = QueryRequest(EmptyQuery, <<>>, MaxRows, 1)
    /\ qres = NoResult
    /\ executed = <<>>
    /\ BucketReady

XNext == Next \/ QueryImages

XSpec == XInit /\ [][XNext]_vars

----------------------------------------------------------------------------
(* Properties of the orchestration.                                        *)

IsCreate(s) == reqs[s].kind = "create"
IsDelete(s) == reqs[s].kind = "delete"
IsGet(s) == reqs[s].kind = "get"

\* The handler has returned or raised.
Answered(s) == reqs[s].pc \in {"returned", "raised"}

\* The handler has answered and every task it launched has ended.
Over(s) == Answered(s) /\ AllSettled(reqs[s])

Quiescent == \A s \in Slots : reqs[s].kind = "idle"

\* The thumbnail ObjectRef of an image, spelled out.
ThumbRef(ref) == [bucket |-> ref.bucket, name |-> ref.name \o ".thumbnail"]

\* The objects of the store that belong to image ref.
ObjectsOf(ref) == {o \in objects : o \in {ref, ThumbRef(ref)}}

\* C1: whenever create_uav_image returns successfully with ObjectRef R, the
\* object store holds the main object under R and the thumbnail under
\* (R.bucket, R.name + ".thumbnail"), two distinct objects, and the metadata
\* table holds exactly one row keyed by R.
CreateSuccessStoresAll ==
    \A s \in Slots :
        IsCreate(s) /\ reqs[s].pc = "returned" =>
            /\ reqs[s].ref \in objects
            /\ ThumbRef(reqs[s].ref) \in objects
            /\ Cardinality(ObjectsOf(reqs[s].ref)) = 2
            /\ Cardinality(RowsById(metadata, reqs[s].ref)) = 1

\* C1 witness: a create has returned after its three tasks wrote.
CreateReturned ==
    \E s \in Slots :
        /\ IsCreate(s) /\ reqs[s].pc = "returned"
        /\ reqs[s].obj = "ok" /\ reqs[s].meta = "ok" /\ reqs[s].thumb = "ok"

\* No compensating delete of the create met a backend fault.
NoRollbackFault(r) ==
    ~(r.exc.src = "rollback" /\ r.exc.kind \in OperationErrors)

\* C2: if the metadata add of a create failed with MetadataOperationError
\* (the failure asyncio.gather delivered, no thumbnail-generation failure,
\* no backend fault in a compensating delete), then once create_uav_image
\* has raised and all its tasks have ended, neither the main object nor the
\* thumbnail object of the new ObjectRef is in the object store.
MetadataFailureLeavesNoObjects ==
    \A s \in Slots :
        IsCreate(s)
        /\ reqs[s].gexc = Error("MetadataOperationError", "metadata_task")
        /\ reqs[s].thumb # "ThumbnailError"
        /\ NoRollbackFault(reqs[s])
        /\ reqs[s].pc = "raised" /\ AllSettled(reqs[s]) =>
            /\ ~object_exists(objects, reqs[s].ref)
            /\ ~object_exists(objects, ThumbRef(reqs[s].ref))

\* C3: if the main-object write or the thumbnail write of a create failed
\* with ObjectOperationError (the failure asyncio.gather delivered, no
\* thumbnail-generation failure, no backend fault in the compensating
\* delete), then once create_uav_image has raised and all its tasks have
\* ended, the metadata table holds no row for the new ObjectRef.
ObjectFailureLeavesNoMetadata ==
    \A s \in Slots :
        IsCreate(s)
        /\ reqs[s].gexc.kind = "ObjectOperationError"
        /\ reqs[s].thumb # "ThumbnailError"
        /\ NoRollbackFault(reqs[s])
        /\ reqs[s].pc = "raised" /\ AllSettled(reqs[s]) =>
            ~SqlFound(metadata, reqs[s].ref)

\* The tasks of a create that failed did so with one of the two operation
\* errors, and at least one failed.
FailedWithOperationErrors(r) ==
    /\ r.gexc.kind \in OperationErrors
    /\ r.thumb # "ThumbnailError"

\* C4: a create whose branches failed with operation errors only, and whose
\* compensating deletes all succeeded (the original error was re-raised),
\* leaves, once it has raised and all its tasks have ended, neither main
\* object nor thumbnail nor metadata row for the new ObjectRef.
FailedCreateLeavesNothing ==
    \A s \in Slots :
        IsCreate(s) /\ reqs[s].pc = "raised" /\ AllSettled(reqs[s])
        /\ FailedWithOperationErrors(reqs[s])
        /\ reqs[s].exc = reqs[s].gexc =>
            /\ ObjectsOf(reqs[s].ref) = {}
            /\ RowsById(metadata, reqs[s].ref) = {}

\* C5: when a create branch failed with an operation error, the error that
\* create_uav_image raises is that error, also when a compensating delete
\* found nothing to delete (a backend fault of the compensating delete
\* itself set aside).
CreateRaisesOriginalError ==
    \A s \in Slots :
        IsCreate(s) /\ reqs[s].pc = "raised"
        /\ reqs[s].gexc.kind \in OperationErrors =>
            \/ reqs[s].exc = reqs[s].gexc
            \/ /\ reqs[s].exc.src = "rollback"
               /\ reqs[s].exc.kind \in OperationErrors

ReportedNotFound(r) == r.obj = "KeyError" \/ r.meta = "KeyError"

\* C6 as stated: whenever the object delete or the metadata delete of a
\* delete_image reported not found, delete_image fails with the 404.
DeleteNotFoundIs404 ==
    \A s \in Slots :
        IsDelete(s) /\ Answered(s) /\ ReportedNotFound(reqs[s]) =>
            reqs[s].pc = "raised" /\ reqs[s].exc = Http404

\* C6 amended: whenever the object delete or the metadata delete of a
\* delete_image reported not found, delete_image does not report success:
\* it fails with the 404, unless the other delete had failed before with an
\* error that is not not-found, and then it fails with that error.
DeleteNotFoundNeverSucceeds ==
    \A s \in Slots :
        IsDelete(s) /\ Answered(s) /\ ReportedNotFound(reqs[s]) =>
            /\ reqs[s].pc = "raised"
            /\ \/ reqs[s].exc = Http404
               \/ /\ reqs[s].exc.kind \in OperationErrors
                  /\ reqs[s].exc = reqs[s].gexc
                  /\ \/ reqs[s].exc.src = "object_task"
                        /\ reqs[s].obj = "ObjectOperationError"
                        /\ reqs[s].meta = "KeyError"
                     \/ reqs[s].exc.src = "metadata_task"
                        /\ reqs[s].meta = "MetadataOperationError"
                        /\ reqs[s].obj = "KeyError"

\* C6 witness: one delete succeeded, the other reported not found, and
\* delete_image raised the 404.
DeleteHalfNotFound ==
    \E s \in Slots :
        /\ IsDelete(s) /\ reqs[s].pc = "raised" /\ reqs[s].exc = Http404
        /\ reqs[s].obj = "ok" /\ reqs[s].meta = "KeyError"

\* Neither delete of the request met a backend fault.
NoFault(r) ==
    /\ r.obj \notin OperationErrors
    /\ r.meta \notin OperationErrors

\* C7: on the ObjectRef R of a successfully created image, the first
\* delete_image call succeeds (no backend fault, no other delete of R at the
\* same time); when a delete_image call has succeeded, neither the main
\* object nor the metadata row of R exists any more; and a delete_image call
\* made on R after that fails with the 404.
DeleteTwice ==
    /\ \A s \in Slots :
          IsDelete(s) /\ Over(s) /\ NoFault(reqs[s]) =>
              /\ reqs[s].first /\ ~reqs[s].overlap => reqs[s].pc = "returned"
              /\ reqs[s].afterOk =>
                    reqs[s].pc = "raised" /\ reqs[s].exc = Http404
    /\ \A s \in Slots :
          IsDelete(s) /\ reqs[s].pc = "returned" =>
              /\ ~object_exists(objects, reqs[s].ref)
              /\ ~SqlFound(metadata, reqs[s].ref)
    /\ \A ref \in deleted :
          ~object_exists(objects, ref) /\ ~SqlFound(metadata, ref)

\* C7 witness: a second delete_image on an ObjectRef whose first delete
\* succeeded has raised the 404.
SecondDeleteRaised ==
    \E s \in Slots :
        /\ IsDelete(s) /\ Over(s) /\ reqs[s].afterOk
        /\ reqs[s].ref \in known
        /\ reqs[s].exc = Http404

\* C8: after calls that all succeeded, with no request in flight, the
\* thumbnail of a created image exists if and only if its main object does.
ThumbnailLockstep ==
    Quiescent /\ attempted \subseteq deleted =>
        \A ref \in known :
            object_exists(objects, ThumbRef(ref))
                <=> object_exists(objects, ref)

\* C9 as stated: get_image returns only when both fetches succeeded, and
\* whenever either fetch reported not found it fails with the 404.
GetIsAUnit ==
    \A s \in Slots :
        IsGet(s) /\ Answered(s) =>
            /\ reqs[s].pc = "returned" =>
                  reqs[s].obj = "ok" /\ reqs[s].meta = "ok"
            /\ ReportedNotFound(reqs[s]) =>
                  reqs[s].pc = "raised" /\ reqs[s].exc = Http404

\* C9 amended: get_image returns a stream only when both the object fetch
\* and the metadata fetch succeeded; whenever either reported not found it
\* fails: with the 404, unless the other fetch had failed before with an
\* error that is not not-found, and then with that error.
GetIsAUnitUnlessOtherError ==
    \A s \in Slots :
        IsGet(s) /\ Answered(s) =>
            /\ reqs[s].pc = "returned" =>
                  reqs[s].obj = "ok" /\ reqs[s].meta = "ok"
            /\ ReportedNotFound(reqs[s]) =>
                  /\ reqs[s].pc = "raised"
                  /\ \/ reqs[s].exc = Http404
                     \/ /\ reqs[s].exc.kind \in OperationErrors
                        /\ reqs[s].exc = reqs[s].gexc
                        /\ \/ reqs[s].exc.src = "object_task"
                              /\ reqs[s].obj = "ObjectOperationError"
                              /\ reqs[s].meta = "KeyError"
                           \/ reqs[s].exc.src = "metadata_task"
                              /\ reqs[s].meta = "MetadataOperationError"
                              /\ reqs[s].obj = "KeyError"

\* C9 witness: the object was fetched, the metadata was not found, and
\* get_image raised the 404.
GetHalfNotFound ==
    \E s \in Slots :
        /\ IsGet(s) /\ reqs[s].pc = "raised" /\ reqs[s].exc = Http404
        /\ reqs[s].obj = "ok" /\ reqs[s].meta = "KeyError"

\* One delete of the request has succeeded and the other has failed with
\* an operation error.
HalfDeleted(r) ==
    \/ r.obj = "ok" /\ r.meta = "MetadataOperationError"
    \/ r.obj = "ObjectOperationError" /\ r.meta = "ok"

\* A step of a delete_image request changes a store only by a delete task
\* that succeeds, which removes what the request names and nothing else.
DeleteStepsOnlyDelete ==
    \A s \in Slots :
        IsDelete(s) =>
            /\ objects' # objects =>
                  /\ reqs[s].obj = "pending" /\ reqs'[s].obj = "ok"
                  /\ objects' = objects \ {reqs[s].ref}
            /\ metadata' # metadata =>
                  /\ reqs[s].meta = "pending" /\ reqs'[s].meta = "ok"
                  /\ metadata' =
                        {row \in metadata :
                            [bucket |-> row.bucket, name |-> row.key]
                                # reqs[s].ref}

\* When one delete has succeeded and the other has failed with an
\* operation error, the request fails with that error, the deleted side is
\* gone and the other side is where the failed delete found it.
HalfDeletedPropagates ==
    \A s \in Slots :
        (IsDelete(s) /\ Over(s) /\ HalfDeleted(reqs[s])) =>
            /\ reqs[s].pc = "raised"
            /\ reqs[s].exc.kind \in OperationErrors
            /\ reqs[s].exc # Http404
            /\ reqs[s].obj = "ok" =>
                  /\ reqs[s].exc.kind = "MetadataOperationError"
                  /\ reqs[s].ref \notin objects
            /\ reqs[s].meta = "ok" =>
                  /\ reqs[s].exc.kind = "ObjectOperationError"
                  /\ \A row \in metadata :
                        [bucket |-> row.bucket, name |-> row.key]
                            # reqs[s].ref

\* C17: in delete_image, when one of the two deletes succeeds and the
\* other fails for a reason other than not-found, nothing is compensated:
\* the deleted side stays deleted, the other side is left as it was, and
\* the caller gets the failure, which is not the not-found condition.
DeleteNotCompensated ==
    [][DeleteStepsOnlyDelete]_vars /\ []HalfDeletedPropagates

\* A delete_image on a created image has failed with the metadata store's
\* error after its object delete succeeded: the object is gone, the
\* metadata row is still there.
DeleteHalfDone ==
    \E s \in Slots :
        /\ IsDelete(s) /\ Over(s)
        /\ reqs[s].ref \in known
        /\ reqs[s].obj = "ok"
        /\ reqs[s].meta = "MetadataOperationError"
        /\ reqs[s].ref \notin objects
        /\ \E row \in metadata :
              [bucket |-> row.bucket, name |-> row.key] = reqs[s].ref

\* C18: on a metadata failure during create the rollback issues the
\* delete of the main object and the delete of the thumbnail in every
\* execution: however the delete of the main object ends, the delete of
\* the thumbnail comes next.
RollbackIssuesBothDeletes ==
    [][\A s \in Slots :
          (/\ IsCreate(s)
           /\ reqs[s].pc = "rollback_object"
           /\ reqs'[s].pc # "rollback_object")
              => reqs'[s].pc = "rollback_thumbnail"]_vars

\* C19: when get_image has failed, whichever branch raised and whatever
\* it raised, no fetch it launched is still pending: the sibling was
\* cancelled before the failure was reported.
GetFailureCancelsSiblings ==
    \A s \in Slots :
        (IsGet(s) /\ reqs[s].pc = "raised") =>
            /\ reqs[s].obj # "pending"
            /\ reqs[s].meta # "pending"

\* The handler of the create request has left the gather with a failure.
CreateFailing(s) ==
    /\ IsCreate(s)
    /\ reqs[s].pc \in {"rollback_object", "rollback_thumbnail",
                       "rollback_metadata", "raised"}

\* C20: in create_uav_image no branch is ever cancelled; a branch that is
\* still pending when the rollback has started or the handler has raised
\* can still take its step, committing its write or failing on its own.
CreateSiblingsNotCancelled ==
    \A s \in Slots :
        /\ IsCreate(s) =>
              /\ reqs[s].obj # "cancelled"
              /\ reqs[s].meta # "cancelled"
              /\ reqs[s].thumb # "cancelled"
        /\ CreateFailing(s) =>
              /\ reqs[s].obj = "pending" => ENABLED CreateObjectTask(s)
              /\ reqs[s].meta = "pending" => ENABLED CreateMetadataTask(s)
              /\ reqs[s].thumb = "pending"
                    => ENABLED CreateThumbnailGenerate(s)
              /\ reqs[s].thumb = "generated"
                    => ENABLED CreateThumbnailStore(s)

\* The rollback after a metadata failure found no main object to delete,
\* create_uav_image has raised, and the object task has committed the main
\* object since.
WrittenAfterRollback ==
    \E s \in Slots :
        /\ IsCreate(s)
        /\ reqs[s].pc = "raised"
        /\ reqs[s].gexc.kind = "MetadataOperationError"
        /\ reqs[s].exc = Error("KeyError", "rollback")
        /\ reqs[s].obj = "ok"
        /\ reqs[s].ref \in objects

\* The gather of the create request has failed with an error that is
\* neither MetadataOperationError nor ObjectOperationError.
OtherFailure(s) ==
    /\ IsCreate(s)
    /\ reqs[s].gexc # NoError
    /\ reqs[s].gexc.kind \notin {"MetadataOperationError",
                                 "ObjectOperationError"}

\* Such a request never enters a rollback, and raises what the gather
\* raised.
OtherFailurePropagates ==
    \A s \in Slots :
        OtherFailure(s) =>
            /\ reqs[s].pc \in {"gather", "raised"}
            /\ reqs[s].pc = "raised" => reqs[s].exc = reqs[s].gexc

\* No step of such a request removes anything from a store.
OtherFailureDeletesNothing ==
    \A s \in Slots :
        OtherFailure(s) =>
            /\ objects \subseteq objects'
            /\ metadata \subseteq metadata'

ThumbnailKept ==
    \A ref \in known :
        (/\ ref \in objects
         /\ \E row \in metadata :
               [bucket |-> row.bucket, name |-> row.key] = ref)
            => ThumbRef(ref) \in objects

----------------------------------------------------------------------------
(* Properties of the query engine.                                         *)

\* text contains value as a contiguous run of characters.
Contains(text, value) ==
    \E i \in 0..(Len(text) - Len(value)) :
        SubSeq(text, i + 1, i + Len(value)) = value

\* The predicate one filter value places on one field of a record.
Predicate(value, field) ==
    CASE value.tag = "None" -> TRUE
      [] value.tag = "Enum" -> field = value.value
      [] value.tag = "Str" -> Contains(field, value.value)
      [] value.tag = "Range" ->
            value.min_value <= field /\ field <= value.max_value

InsideBox(box, lat, lon) ==
    box.tag = "Box" =>
        /\ box.south_west.latitude_deg <= lat
        /\ lat <= box.north_east.latitude_deg
        /\ box.south_west.longitude_deg <= lon
        /\ lon <= box.north_east.longitude_deg

\* The record of a row satisfies every active predicate of the filter.
Satisfies(row, q) ==
    /\ Predicate(q.platform_type, row.platform_type)
    /\ Predicate(q.name, row.name)
    /\ Predicate(q.notes, row.notes)
    /\ Predicate(q.camera, row.camera)
    /\ Predicate(q.session_numbers, row.session_number)
    /\ Predicate(q.sequence_numbers, row.sequence_number)
    /\ Predicate(q.capture_dates, row.capture_date)
    /\ Predicate(q.location_description, row.location_description)
    /\ Predicate(q.altitude_meters, row.altitude_meters)
    /\ Predicate(q.gsd_cm_px, row.gsd_cm_px)
    /\ InsideBox(q.bounding_box, row.location_lat, row.location_lon)

\* C10: for every filter, every list of orderings and every pagination
\* window, each ObjectRef in the answer of a query names a stored record
\* whose metadata satisfies every active predicate of the filter.
NoFalsePositives ==
    qres # NoResult =>
        \A i \in 1..Len(qres.image_ids) :
            \E row \in metadata :
                /\ ObjectRef(row.bucket, row.key) = qres.image_ids[i]
                /\ Satisfies(row, qreq.query)

\* The query has been answered with a page of results.
Responded == qres # NoResult /\ "image_ids" \in DOMAIN qres

\* The ObjectRefs of the answer.
Returned == {qres.image_ids[i] : i \in 1..Len(qres.image_ids)}

RefOf(row) == [bucket |-> row.bucket, name |-> row.key]

\* The first page is asked for and is large enough for every stored row.
CoversAllRows ==
    qreq.page_num = 1 /\ qreq.results_per_page >= Cardinality(metadata)

\* The only filter of q is a Range on field f.
RangeOnly(q, f) ==
    q[f].tag = "Range" /\ q = [EmptyQuery EXCEPT ![f] = q[f]]

\* The value a record holds for a Range field of ImageQuery.
RangeValue(row, f) ==
    CASE f = "session_numbers" -> row.session_number
      [] f = "sequence_numbers" -> row.sequence_number
      [] f = "capture_dates" -> row.capture_date
      [] f = "altitude_meters" -> row.altitude_meters
      [] f = "gsd_cm_px" -> row.gsd_cm_px

\* C11: with a single Range{min, max} filter on field F and a window that
\* covers all rows, a stored record is returned if and only if
\* min <= F <= max; so a record with F = min or F = max is returned and a
\* Range with min > max returns nothing.
RangeInclusive ==
    \A f \in {"session_numbers", "sequence_numbers", "capture_dates",
              "altitude_meters", "gsd_cm_px"} :
        (Responded /\ RangeOnly(qreq.query, f) /\ CoversAllRows) =>
            /\ \A row \in metadata :
                  RefOf(row) \in Returned <=>
                      /\ qreq.query[f].min_value <= RangeValue(row, f)
                      /\ RangeValue(row, f) <= qreq.query[f].max_value
            /\ qreq.query[f].min_value > qreq.query[f].max_value
                  => Returned = {}

\* A record whose field equals the lower bound of a proper Range, and one
\* whose field equals the upper bound, have been returned.
RangeBoundsReturned ==
    /\ Responded
    /\ CoversAllRows
    /\ RangeOnly(qreq.query, "session_numbers")
    /\ qreq.query.session_numbers.min_value
          < qreq.query.session_numbers.max_value
    /\ \E lo \in metadata, hi \in metadata :
          /\ lo.session_number = qreq.query.session_numbers.min_value
          /\ hi.session_number = qreq.query.session_numbers.max_value
          /\ {RefOf(lo), RefOf(hi)} \subseteq Returned

\* No field of q is set; q holds at most a bounding box.
BoxOnly(q) == q = [EmptyQuery EXCEPT !.bounding_box = q.bounding_box]

\* C12: with no filter but a bounding box B and a window that covers all
\* rows, a stored record with location P is returned if and only if
\* B.south_west <= P <= B.north_east in latitude and in longitude, the four
\* bounds inclusive; without a bounding box every record is returned.
BoxInclusive ==
    (Responded /\ BoxOnly(qreq.query) /\ CoversAllRows) =>
        \A row \in metadata :
            RefOf(row) \in Returned <=>
                \/ qreq.query.bounding_box.tag = "None"
                \/ /\ qreq.query.bounding_box.south_west.latitude_deg
                         <= row.location_lat
                   /\ row.location_lat
                         <= qreq.query.bounding_box.north_east.latitude_deg
                   /\ qreq.query.bounding_box.south_west.longitude_deg
                         <= row.location_lon
                   /\ row.location_lon
                         <= qreq.query.bounding_box.north_east.longitude_deg

\* A record on the south-west corner of a box has been returned and a
\* record outside the box has not.
BoxCornerReturned ==
    /\ Responded
    /\ CoversAllRows
    /\ BoxOnly(qreq.query)
    /\ qreq.query.bounding_box.tag = "Box"
    /\ \E corner \in metadata, outside \in metadata :
          /\ corner.location_lat
                = qreq.query.bounding_box.south_west.latitude_deg
          /\ corner.location_lon
                = qreq.query.bounding_box.south_west.longitude_deg
          /\ RefOf(corner) \in Returned
          /\ outside.location_lon
                > qreq.query.bounding_box.north_east.longitude_deg
          /\ RefOf(outside) \notin Returned

\* Page k of the pages read so far, as a set of ObjectRefs.
PageSet(k) ==
    {executed[k].image_ids[i] : i \in 1..Len(executed[k].image_ids)}

\* The ObjectRefs of the stored records that satisfy the filter.
Matching == {RefOf(row) : row \in {r \in metadata : Satisfies(r, qreq.query)}}

\* No record is on two pages or twice on a page; once a page shorter than
\* the limit has come, every matching record has been on a page and the
\* pages after it are empty.
Partitioned ==
    /\ \A j, k \in 1..Len(executed) :
          j < k => PageSet(j) \cap PageSet(k) = {}
    /\ \A k \in 1..Len(executed) :
          Cardinality(PageSet(k)) = Len(executed[k].image_ids)
    /\ \A k \in 1..Len(executed) :
          Len(executed[k].image_ids) < qreq.results_per_page =>
              /\ Matching \subseteq UNION {PageSet(j) : j \in 1..Len(executed)}
              /\ \A j \in (k + 1)..Len(executed) :
                    executed[j].image_ids = <<>>

\* C13 (as stated): for every filter, every list of orderings and every
\* limit, the pages skip = 0, limit, 2*limit, ... of a query over an
\* unchanged store partition the matching records, and a short page is
\* followed only by empty pages.
PagesPartition == qreq # NoQuery => Partitioned

\* The value a record holds for the field of an Ordering.
OrderValue(row, field) ==
    CASE field = "NAME" -> row.name
      [] field = "SESSION_NUM" -> row.session_number
      [] field = "SEQUENCE_NUM" -> row.sequence_number
      [] field = "CAPTURE_DATE" -> row.capture_date
      [] field = "CAMERA" -> row.camera

\* No two stored records have the same values for all ordering fields.
OrderingsTotal ==
    \A a, b \in metadata :
        a # b =>
            \E i \in 1..Len(qreq.orderings) :
                OrderValue(a, qreq.orderings[i].field)
                    # OrderValue(b, qreq.orderings[i].field)

\* C13 (amended): the pages partition the matching records whenever the
\* orderings leave no two stored records tied.
PagesPartitionWhenTotal ==
    (qreq # NoQuery /\ OrderingsTotal) => Partitioned

\* Two records under orderings that tell them apart, read on two full
\* pages of one record each.
TwoPagesRead ==
    /\ qreq # NoQuery
    /\ OrderingsTotal
    /\ Cardinality(metadata) = 2
    /\ Len(executed) = 2
    /\ \A k \in 1..2 : Len(executed[k].image_ids) = 1
    /\ PageSet(1) \cup PageSet(2) = Matching

\* C14: is_last_page is true exactly when fewer than results_per_page
\* ObjectRefs are returned; so when the matching records number a positive
\* multiple N * results_per_page, page N is full and not last and page
\* N + 1 is empty and last.
LastPageByCount ==
    Responded =>
        /\ qres.is_last_page
              <=> Len(qres.image_ids) < qreq.results_per_page
        /\ (/\ Cardinality(Matching) > 0
            /\ Cardinality(Matching) % qreq.results_per_page = 0) =>
               /\ qreq.page_num
                     = Cardinality(Matching) \div qreq.results_per_page =>
                        /\ Len(qres.image_ids) = qreq.results_per_page
                        /\ ~qres.is_last_page
               /\ qreq.page_num
                     = Cardinality(Matching) \div qreq.results_per_page + 1 =>
                        /\ qres.image_ids = <<>>
                        /\ qres.is_last_page

\* The stored record an ObjectRef names.
RowOf(ref) == CHOOSE row \in metadata : RefOf(row) = ref

CharCode(c) == IF c = "_" THEN 95 ELSE 97

\* a is before b in the order of texts, character by character.
RECURSIVE TextLess(_, _)
TextLess(a, b) ==
    IF b = <<>> THEN FALSE
    ELSE IF a = <<>> THEN TRUE
    ELSE IF CharCode(Head(a)) # CharCode(Head(b))
         THEN CharCode(Head(a)) < CharCode(Head(b))
         ELSE TextLess(Tail(a), Tail(b))

ValueLess(field, a, b) ==
    IF field \in {"NAME", "CAMERA"} THEN TextLess(a, b) ELSE a < b

\* Ordering o puts record a strictly before record b.
Precedes(o, a, b) ==
    IF o.ascending
    THEN ValueLess(o.field, OrderValue(a, o.field), OrderValue(b, o.field))
    ELSE ValueLess(o.field, OrderValue(b, o.field), OrderValue(a, o.field))

\* The orderings, read as a multi-key sort, put a strictly before b: the
\* first ordering on which they differ does.
SortsBefore(orderings, a, b) ==
    \E k \in 1..Len(orderings) :
        /\ \A m \in 1..(k - 1) :
              OrderValue(a, orderings[m].field)
                  = OrderValue(b, orderings[m].field)
        /\ Precedes(orderings[k], a, b)

\* C15: for a non-empty list of orderings the returned sequence is sorted
\* lexicographically, by the first ordering in its direction, then by the
\* second among records equal on the first, and so on.
SortedLexicographically ==
    (Responded /\ qreq.orderings # <<>>) =>
        \A i, j \in 1..Len(qres.image_ids) :
            i < j => ~SortsBefore(qreq.orderings,
                                  RowOf(qres.image_ids[j]),
                                  RowOf(qres.image_ids[i]))

\* Two records equal on the first ordering have been returned in the order
\* of the second, which is descending, and the first ordering taken alone
\* on the second's field would have reversed them.
TieBrokenBySecond ==
    /\ Responded
    /\ Len(qreq.orderings) = 2
    /\ Len(qres.image_ids) = 2
    /\ qreq.orderings[1].field = "SESSION_NUM"
    /\ qreq.orderings[2] = [field |-> "NAME", ascending |-> FALSE]
    /\ RowOf(qres.image_ids[1]).session_number
          = RowOf(qres.image_ids[2]).session_number
    /\ RowOf(qres.image_ids[1]).name = <<"a">>
    /\ RowOf(qres.image_ids[2]).name = <<"_">>

\* The fields the specification allows in an ordering.
Whitelist == {"NAME", "SESSION_NUM", "SEQUENCE_NUM", "CAPTURE_DATE", "CAMERA"}

\* C16: a query with an ordering on a field outside the whitelist ends in
\* an error, yields no results and has made the session execute nothing;
\* a query whose orderings are all on whitelisted fields is answered.
OrderingWhitelist ==
    qres # NoResult =>
        IF \E i \in 1..Len(qreq.orderings) :
               qreq.orderings[i].field \notin Whitelist
        THEN /\ "error" \in DOMAIN qres
             /\ "image_ids" \notin DOMAIN qres
             /\ executed = <<>>
        ELSE /\ "error" \notin DOMAIN qres
             /\ "image_ids" \in DOMAIN qres
             /\ Len(executed) = 1

\* A query whose second ordering is outside the whitelist, on a table that
\* holds records, has been rejected.
OrderingRejected ==
    /\ qres # NoResult
    /\ "error" \in DOMAIN qres
    /\ metadata # {}
    /\ Len(qreq.orderings) = 2
    /\ qreq.orderings[1].field \in Whitelist
    /\ qreq.orderings[2].field \notin Whitelist

\* The fields of q (the bounding box among them) that are present.
ActiveFields(q) == {f \in DOMAIN q : q[f].tag # "None"}

\* q with only its filter on field f.
Alone(q, f) ==
    [g \in DOMAIN q |-> IF g = f THEN q[f] ELSE [tag |-> "None"]]

\* The stored records the store's query selects for q.
MatchedBy(q) ==
    {RefOf(row) :
        row \in Selected(metadata, __update_image_query(q, SelectImage))}

\* C22: filters compose as a conjunction: with a window that covers all
\* rows, the records a query returns are those that each of its present
\* filters, taken alone, selects; a query with no field and no bounding box
\* returns every stored record.
FiltersConjoin ==
    (Responded /\ CoversAllRows) =>
        /\ Returned =
              {RefOf(row) : row \in
                  {r \in metadata :
                      \A f \in ActiveFields(qreq.query) :
                          RefOf(r) \in MatchedBy(Alone(qreq.query, f))}}
        /\ ActiveFields(qreq.query) = {} =>
              Returned = {RefOf(row) : row \in metadata}

\* A query with a Range and a bounding box has returned one record and
\* left out another that the Range alone selects.
TwoFiltersNarrow ==
    /\ Responded
    /\ CoversAllRows
    /\ ActiveFields(qreq.query) = {"session_numbers", "bounding_box"}
    /\ Returned # {}
    /\ \E row \in metadata :
          /\ RefOf(row) \notin Returned
          /\ RefOf(row) \in MatchedBy(Alone(qreq.query, "session_numbers"))

\* C24: at the moment a query is answered, every ObjectRef it yields names
\* an image whose main object is in the object store, whatever create and
\* delete requests are in progress.
QueryYieldsStoredObjects ==
    [][(qres = NoResult /\ qres' # NoResult /\ "image_ids" \in DOMAIN qres')
          => \A i \in 1..Len(qres'.image_ids) :
                 qres'.image_ids[i] \in objects']_vars

\* C25: create_bucket is called at most once for a bucket name and never
\* for a bucket that exists at the time of the call, and the bucket exists
\* once use_bucket has returned its name.
CreateBucketOnlyWhenAbsent ==
    /\ \A call \in bucketCalls : ~call.existed
    /\ \A a, b \in bucketCalls : a.bucket = b.bucket => a = b
    /\ \A c \in Callers :
          callers[c].pc = "returned" => callers[c].bucket_name \in buckets

====
